---- MODULE Spec2Model ----
(***************************************************************************)
(* State-machine model of WebSocketClientV5 (src/src/websocket-client-v5.ts)*)
(* of bybit-api-gnome: the per-category connection registry, the socket    *)
(* callbacks installed by connectWS, the authentication handshake, the     *)
(* heartbeat timer and the reconnection loop.                              *)
(*                                                                         *)
(* Every handler of the client is a pure operator on a record `st' of the  *)
(* client's state; a handler that calls another one (connect -> connectWS, *)
(* onclose -> handleReconnection, the promise continuation of              *)
(* handleReconnection -> subscribe) is the composition of the operators.    *)
(* One action of Next is one turn of the event loop: a public call, one    *)
(* socket callback or one timer callback, run to completion with the       *)
(* promise continuations it triggers.                                      *)
(***************************************************************************)
EXTENDS Integers, Sequences, FiniteSets, TLC

\* ------------------------------------------------------------------ bounds
MaxSockets == 4     \* WebSocket objects created in a run that uses the public category
MaxPrivate == 2     \* WebSocket objects created in a run that uses the private category
MaxAuth    == 3     \* WebSocket objects created in a run about the private handshake
MaxShared  == 2     \* WebSocket objects created in a run that uses both categories
MaxActive  == 2     \* WebSocket objects not yet closed at one time, all categories
MaxTimers  == 3     \* reconnect timers pending at one time in a run about recovery
MaxPing    == 2     \* heartbeat intervals running at one time, per category

\* ------------------------------------------------------- program constants
Baseline     == 500      \* options.reconnectTimeout default
Ceiling      == 30000    \* Math.min(..., 30000) in handleReconnection
NormalClose  == 1000     \* the close code onclose treats as normal
NoStatusCode == 1005     \* close code of a closure whose close frame had no code
AbnormalCode == 1006     \* close code of a dropped or failed connection

Keys == {"spot", "private"}             \* V5WSCategory (one public, the private)
CloseCodes == {NormalClose, NoStatusCode, AbnormalCode}

\* Topic lists a caller may pass to subscribe and unsubscribe.
AnyTopics == {"orderbook", "order", "trade"}

\* The topics a caller subscribes on each key.
TopicsOf(k) == IF k = "private" THEN {"order"} ELSE {"orderbook"}

VARIABLES
  used,              \* the categories the application uses in this run
  budget,            \* the number of WebSocket objects this run may create
  hasCreds,          \* options.key && options.secret
  restore,           \* options.restoreSubscriptionsOnReconnect
  reconnectTimeout,  \* options.reconnectTimeout (one value for the client)
  ws,                \* wsStore: key -> stored socket (0: no record yet, Gone: closed)
  connState,         \* wsStore: key -> WsConnectionStateEnum
  topics,            \* wsStore: key -> subscribedTopics
  socks,             \* the WebSocket objects created by connectWS and not yet closed
  created,           \* key -> number of WebSocket objects created so far
  timers,            \* key -> number of pending reconnect setTimeouts
  pingTimers,        \* key -> number of running setInterval heartbeats
  attempts,          \* history: key -> reconnect delays scheduled since the closure of a
                     \*   socket connect() opened, or since the last successful reconnect
  replays,           \* history: key -> replay frames sent, less the disconnects to recover from
  closedByUser,      \* history: key -> close(key) called and no connect(key) since
  requestIdCounter,  \* this.requestIdCounter
  issued,            \* history: the req_ids of the frames sent so far
  host               \* the embedding application: "observed" with a listener for the
                     \*   'error' event, "bare" without one, "down" once an exception
                     \*   has escaped a socket callback

vars == <<used, budget, hasCreds, restore, reconnectTimeout, ws, connState, topics, socks,
          created, timers, pingTimers, attempts, replays, closedByUser,
          requestIdCounter, issued, host>>

SockIds == 1..MaxActive

\* The registry still holds a socket that has closed and takes no further part.
Gone == -1

\* A socket object.  rs is the transport's readyState, with the two ways of
\* closing told apart: ABORTING is CLOSING before the socket ever opened
\* (ws.close() while connecting), BROKEN is CLOSING after a transport error.
\* by is who called connectWS for it (connect() or the reconnect timer), waiter
\* is by while the promise connectWS returned is pending and "none" once it
\* is settled; auth is the promise of authenticate(); listening is its
\* once('response') listener; authReq an auth frame the server has not answered;
\* pinged (history, kept in the runs about timing) a ping sent on it that no
\* pong has answered.
NoSock == [key |-> "none", rs |-> "NONE", by |-> "none", waiter |-> "none",
           auth |-> "none", listening |-> FALSE, authReq |-> FALSE, pinged |-> FALSE]

Min(a, b) == IF a <= b THEN a ELSE b

\* ------------------------------------------------- the state as one record
\* The client's state at the start of a turn (now is what Date.now() returns
\* during the turn, told apart only in the runs about request ids), with the outputs of the turn
\* (frames sent, events emitted, reconnect delays scheduled, connect promises
\* settled, error thrown to the caller) still empty.
Cur ==
  [used |-> used, budget |-> budget, hasCreds |-> hasCreds, restore |-> restore,
   reconnectTimeout |-> reconnectTimeout,
   ws |-> ws, connState |-> connState, topics |-> topics, socks |-> socks,
   created |-> created, timers |-> timers, pingTimers |-> pingTimers, attempts |-> attempts,
   replays |-> replays, closedByUser |-> closedByUser, host |-> host,
   requestIdCounter |-> requestIdCounter, now |-> 0,
   sent |-> <<>>, emitted |-> <<>>, sched |-> <<>>, settled |-> <<>>,
   err |-> "none", overflow |-> FALSE]

Throw(st, e) == [st EXCEPT !.err = e]

\* this.emit(...) of the EventEmitter the client extends: an 'error' event
\* that finds no listener is thrown to the code that emitted it.
Emit(st, ev, k, arg) ==
  IF ev = "error" /\ st.host # "observed"
  THEN Throw(st, "Unhandled")
  ELSE [st EXCEPT !.emitted = Append(@, [ev |-> ev, key |-> k, arg |-> arg])]

Live(sock) == sock.rs \in {"CONNECTING", "OPEN"}

LiveSockets(sk, k) == {i \in SockIds : sk[i].key = k /\ Live(sk[i])}

\* ---------------------------------------------------------------- WsStore
\* wsStore.getWs(key)?.readyState
StoredReadyState(st, k) ==
  IF st.ws[k] = 0 THEN "NONE"
  ELSE IF st.ws[k] = Gone THEN "CLOSED"
  ELSE st.socks[st.ws[k]].rs

\* WsStore.isWsOpen(key): state is CONNECTED and the stored socket is usable.
IsWsOpen(st, k) ==
  /\ st.connState[k] = "CONNECTED"
  /\ StoredReadyState(st, k) = "OPEN"

\* --------------------------------------------------------- sendWSMessage
\* The message's req_id is id; NoId is a message without that field.
NoId == [n |-> 0, t |-> 0]

SendWSMessage(st, k, op, args, id) ==
  LET w == st.ws[k] IN
  IF w = 0 \/ StoredReadyState(st, k) # "OPEN"
  THEN Throw(st, "NotConnected")
  ELSE [st EXCEPT !.sent = Append(@, [sock |-> w, key |-> k, op |-> op, args |-> args,
                                      req_id |-> id])]

\* ------------------------------------------------------ generateRequestId
\* generateRequestId() that reads the counter without advancing it.
GenerateRequestIdStuck(st) == st

\* `req_${++this.requestIdCounter}_${Date.now()}': the counter advances, and
\* the id is the pair of the new count and the time, which the two
\* underscores keep apart in the string.
GenerateRequestId(st) == [st EXCEPT !.requestIdCounter = @ + 1]

RequestId(st) == [n |-> st.requestIdCounter, t |-> st.now]

\* ------------------------------------------------ subscribe / unsubscribe
\* subscribe() without its isWsOpen check: it relies on sendWSMessage alone.
SubscribeUnguarded(st, k, ts) ==
  LET s0 == GenerateRequestId(st)
      s1 == SendWSMessage(s0, k, "subscribe", ts, RequestId(s0)) IN
  IF s1.err # "none" THEN s1
  ELSE [s1 EXCEPT !.topics[k] = @ \cup ts]

\* subscribe() that sends the frame and forgets to record the topics.
SubscribeUntracked(st, k, ts) ==
  IF ~IsWsOpen(st, k)
  THEN Throw(st, "NotConnected")
  ELSE LET s0 == GenerateRequestId(st) IN SendWSMessage(s0, k, "subscribe", ts, RequestId(s0))

Subscribe(st, k, ts) ==
  IF ~IsWsOpen(st, k)
  THEN Throw(st, "NotConnected")
  ELSE LET s0 == GenerateRequestId(st)
           s1 == SendWSMessage(s0, k, "subscribe", ts, RequestId(s0)) IN
       IF s1.err # "none" THEN s1
       ELSE [s1 EXCEPT !.topics[k] = @ \cup ts]

\* unsubscribe() that sends the frame and leaves the topics recorded.
UnsubscribeKeeping(st, k, ts) ==
  IF ~IsWsOpen(st, k)
  THEN Throw(st, "NotConnected")
  ELSE LET s0 == GenerateRequestId(st) IN SendWSMessage(s0, k, "unsubscribe", ts, RequestId(s0))

Unsubscribe(st, k, ts) ==
  IF ~IsWsOpen(st, k)
  THEN Throw(st, "NotConnected")
  ELSE LET s0 == GenerateRequestId(st)
           s1 == SendWSMessage(s0, k, "unsubscribe", ts, RequestId(s0)) IN
       IF s1.err # "none" THEN s1
       ELSE [s1 EXCEPT !.topics[k] = @ \ ts]

SubscribePrivateTopic(st, ts) ==
  IF ~st.hasCreds
  THEN Throw(st, "NoCredentials")
  ELSE Subscribe(st, "private", ts)

\* ------------------------------------------------------------------ close
\* ws.close() of the transport: a connecting or open socket starts closing.
TransportClose(sock) ==
  IF sock.rs = "CONNECTING" THEN [sock EXCEPT !.rs = "ABORTING"]
  ELSE IF sock.rs = "OPEN" THEN [sock EXCEPT !.rs = "CLOSING"]
  ELSE sock

Close(st, k) ==
  LET w == st.ws[k] IN
  IF w = 0 THEN st
  ELSE IF w = Gone THEN [st EXCEPT !.connState[k] = "CLOSING"]
  ELSE [st EXCEPT !.connState[k] = "CLOSING", !.socks[w] = TransportClose(@)]

RECURSIVE CloseEach(_, _)
CloseEach(st, ks) ==
  IF ks = {} THEN st
  ELSE LET k == CHOOSE x \in ks : TRUE IN CloseEach(Close(st, k), ks \ {k})

\* closeAll() that stops after the first key it closes.
CloseAllFirst(st) ==
  LET ks == {k \in Keys : st.ws[k] # 0} IN
  IF ks = {} THEN st ELSE Close(st, CHOOSE k \in ks : TRUE)

\* wsStore.getKeys(): the keys that have a record.
CloseAll(st) == CloseEach(st, {k \in Keys : st.ws[k] # 0})

\* ------------------------------------------------------ handleReconnection
\* handleReconnection with a retry ceiling: it gives up at the largest delay.
HandleReconnectionCapped(st, k) ==
  IF st.reconnectTimeout >= Ceiling THEN st
  ELSE [st EXCEPT !.timers[k] = @ + 1,
                  !.attempts[k] = Append(@, st.reconnectTimeout),
                  !.sched = Append(@, [key |-> k, delay |-> st.reconnectTimeout])]

\* The scheduling half: reads the delay and sets the timer.
HandleReconnection(st, k) ==
  [st EXCEPT !.timers[k] = @ + 1,
             !.attempts[k] = Append(@, st.reconnectTimeout),
             !.sched = Append(@, [key |-> k, delay |-> st.reconnectTimeout])]

\* The catch branch of the timer callback.
ReconnectCatch(st, k) ==
  HandleReconnection(
    [st EXCEPT !.reconnectTimeout = Min(st.reconnectTimeout * 2, Ceiling),
               !.err = "none"], k)

\* The continuation of the reconnect with the subscribe call made whatever the
\* number of tracked topics.
ReconnectThenAlways(st, k) ==
  LET s1 == Subscribe(st, k, st.topics[k]) IN
  IF s1.err # "none"
  THEN ReconnectCatch(s1, k)
  ELSE [s1 EXCEPT !.replays[k] = @ + 1, !.attempts[k] = <<>>]

\* The code after `await this.connectWS(...)' in the timer callback.
ReconnectThen(st, k) ==
  IF st.topics[k] # {}
  THEN LET s1 == Subscribe(st, k, st.topics[k]) IN
       IF s1.err # "none"
       THEN ReconnectCatch(s1, k)
       ELSE [s1 EXCEPT !.replays[k] = @ + 1, !.attempts[k] = <<>>]
  ELSE [st EXCEPT !.attempts[k] = <<>>]

\* resolve() / reject() of the promise connectWS returned for socket sid, with
\* the continuation of whoever awaits it.
Resolve(st, sid) ==
  IF st.socks[sid].waiter = "none" THEN st
  ELSE LET s1 == [st EXCEPT !.socks[sid].waiter = "none",
                            !.settled = Append(@, [sock |-> sid, by |-> st.socks[sid].waiter,
                                                   how |-> "resolved"])]
       IN  IF st.socks[sid].waiter = "reconn"
           THEN ReconnectThen(s1, st.socks[sid].key) ELSE s1

Reject(st, sid) ==
  IF st.socks[sid].waiter = "none" THEN st
  ELSE LET s1 == [st EXCEPT !.socks[sid].waiter = "none",
                            !.settled = Append(@, [sock |-> sid, by |-> st.socks[sid].waiter,
                                                   how |-> "rejected"])]
       IN  IF st.socks[sid].waiter = "reconn"
           THEN ReconnectCatch(s1, st.socks[sid].key) ELSE s1

\* ---------------------------------------------------------------- connect
\* new WebSocket(...): an unused socket object, while the run's budget lasts.
FreeIds(st, k) ==
  IF st.created["spot"] + st.created["private"] >= st.budget
  THEN {}
  ELSE {i \in SockIds : st.socks[i].rs = "NONE"}

\* connectWS that files every socket under the key of the public category.
ConnectWSOneKey(st, k, awaiter) ==
  IF FreeIds(st, k) = {} THEN [st EXCEPT !.overflow = TRUE]
  ELSE LET id == CHOOSE i \in FreeIds(st, k) : \A j \in FreeIds(st, k) : i <= j IN
       [st EXCEPT !.socks[id] = [NoSock EXCEPT !.key = k, !.rs = "CONNECTING",
                                               !.by = awaiter, !.waiter = awaiter],
                  !.created[k] = @ + 1,
                  !.ws["spot"] = id,
                  !.connState["spot"] = "CONNECTING"]

ConnectWS(st, k, awaiter) ==
  IF FreeIds(st, k) = {} THEN [st EXCEPT !.overflow = TRUE]
  ELSE LET id == CHOOSE i \in FreeIds(st, k) : \A j \in FreeIds(st, k) : i <= j IN
       [st EXCEPT !.socks[id] = [NoSock EXCEPT !.key = k, !.rs = "CONNECTING",
                                               !.by = awaiter, !.waiter = awaiter],
                  !.created[k] = @ + 1,
                  !.ws[k] = id,
                  !.connState[k] = "CONNECTING"]

Connect(st, k) ==
  IF IsWsOpen(st, k) THEN st ELSE ConnectWS(st, k, "caller")

\* -------------------------------------------------------------- heartbeat
StartPingPong(st, k) == [st EXCEPT !.pingTimers[k] = @ + 1]

\* A heartbeat that never clears its interval.
PingTickNeverStops(st, k) ==
  IF ~IsWsOpen(st, k)
  THEN st
  ELSE LET s1 == SendWSMessage(st, k, "ping", {}, NoId) IN
       IF s1.err # "none" THEN [s1 EXCEPT !.err = "none"] ELSE s1

\* One tick of a heartbeat interval of key k.
PingTick(st, k) ==
  IF ~IsWsOpen(st, k)
  THEN [st EXCEPT !.pingTimers[k] = @ - 1]
  ELSE LET s1 == SendWSMessage(st, k, "ping", {}, NoId) IN
       IF s1.err # "none"
       THEN [s1 EXCEPT !.err = "none", !.pingTimers[k] = @ - 1]
       ELSE s1

\* ----------------------------------------------------------- authenticate
\* The promise authenticate() returns settles: the .then/.catch of onopen.
AuthSettle(st, sid, success) ==
  IF st.socks[sid].auth # "pending" THEN st
  ELSE IF success
       THEN Resolve(Emit([st EXCEPT !.socks[sid].auth = "ok"],
                         "open", st.socks[sid].key, "none"), sid)
       ELSE Reject([st EXCEPT !.socks[sid].auth = "failed"], sid)

Authenticate(st, sid) ==
  LET k  == st.socks[sid].key
      s1 == [st EXCEPT !.socks[sid].auth = "pending", !.socks[sid].listening = TRUE]
      s2 == SendWSMessage(s1, k, "auth", {}, NoId)
  IN  IF s2.err # "none"
      THEN Reject([s2 EXCEPT !.err = "none", !.socks[sid].auth = "failed",
                             !.socks[sid].listening = FALSE], sid)
      ELSE [s2 EXCEPT !.socks[st.ws[k]].authReq = TRUE]

\* ------------------------------------------------- the socket's callbacks
OnOpenHandler(st, sid) ==
  LET k  == st.socks[sid].key
      s1 == [st EXCEPT !.connState[k] = "CONNECTED"]
      s2 == StartPingPong(s1, k)
  IN  IF k = "private" /\ st.hasCreds
      THEN Authenticate(s2, sid)
      ELSE Resolve(Emit(s2, "open", k, "none"), sid)

\* onerror that also resets the key's connection state.
OnErrorHandlerResetting(st, sid) ==
  Reject(Emit([st EXCEPT !.connState[st.socks[sid].key] = "INITIAL"],
              "error", st.socks[sid].key, "socket"), sid)

OnErrorHandler(st, sid) ==
  LET s1 == Emit(st, "error", st.socks[sid].key, "socket") IN
  IF s1.err # "none" THEN s1 ELSE Reject(s1, sid)

\* onclose that also forgets the topics of the key it closes.
OnCloseHandlerClearing(st, sid, code) ==
  LET k  == st.socks[sid].key
      s1 == Emit([st EXCEPT !.connState[k] = "INITIAL", !.topics[k] = {}],
                 "close", k, "none")
  IN  IF code # NormalClose /\ st.restore
      THEN HandleReconnection(
             [s1 EXCEPT !.attempts[k] = IF st.socks[sid].by = "caller" THEN <<>> ELSE @], k)
      ELSE s1

\* onclose that hands every closure to the reconnect loop, whatever its code.
OnCloseHandlerAnyCode(st, sid, code) ==
  LET k  == st.socks[sid].key
      s1 == Emit([st EXCEPT !.connState[k] = "INITIAL"], "close", k, "none")
  IN  IF st.restore
      THEN HandleReconnection(
             [s1 EXCEPT !.attempts[k] = IF st.socks[sid].by = "caller" THEN <<>> ELSE @], k)
      ELSE s1

OnCloseHandler(st, sid, code) ==
  LET k  == st.socks[sid].key
      s1 == Emit([st EXCEPT !.connState[k] = "INITIAL"], "close", k, "none")
  IN  IF code # NormalClose /\ st.restore
      THEN HandleReconnection(
             [s1 EXCEPT !.attempts[k] = IF st.socks[sid].by = "caller" THEN <<>> ELSE @], k)
      ELSE s1

\* ---------------------------------------------------------- handleMessage
\* Inbound frames: the text of event.data, as JSON.parse and handleMessage see
\* it. valid: the text is JSON; nul: the JSON value is null, which has no
\* fields to read; otherwise the fields handleMessage reads, with "none" for
\* a field the frame does not have (undefined).
Frame(valid, op, topic, success) ==
  [valid |-> valid, nul |-> FALSE, op |-> op, topic |-> topic, success |-> success,
   type |-> "none", data |-> "none"]

\* A data update with its payload.
Update(topic, type, data) ==
  [Frame(TRUE, "none", topic, FALSE) EXCEPT !.type = type, !.data = data]

\* The frame whose text is the JSON literal null.
NullFrame == [Frame(TRUE, "none", "none", FALSE) EXCEPT !.nul = TRUE]

DataFrames ==
  { Frame(FALSE, "none", "none", FALSE),          \* not JSON
    NullFrame,
    Frame(TRUE, "pong", "none", TRUE),
    Frame(TRUE, "subscribe", "none", TRUE),
    Frame(TRUE, "subscribe", "orderbook", TRUE),  \* an echo that also has a topic
    Frame(TRUE, "unsubscribe", "none", TRUE),
    Update("orderbook", "snapshot", "bids"),
    Frame(TRUE, "none", "none", TRUE) }           \* anything else

\* if (message.topic): undefined and the empty string are falsy.
Truthy(v) == v \notin {"none", ""}

AuthFrames == { Frame(TRUE, "auth", "none", b) : b \in BOOLEAN }

\* The handleAuth listeners registered with once('response', ...), run in turn.
RECURSIVE SettleAll(_, _, _)
SettleAll(st, ids, success) ==
  IF ids = {} THEN st
  ELSE LET i == CHOOSE x \in ids : \A y \in ids : x <= y IN
       SettleAll(AuthSettle(st, i, success), ids \ {i}, success)

\* emit('response', message): every once-listener is removed and called; a
\* handleAuth listener acts only on an auth frame.
EmitResponse(st, k, m) ==
  LET L  == {i \in SockIds : st.socks[i].listening}
      s1 == Emit(st, "response", k, m.op)
      s2 == [s1 EXCEPT !.socks = [i \in SockIds |->
                                   IF i \in L THEN [s1.socks[i] EXCEPT !.listening = FALSE]
                                   ELSE s1.socks[i]]]
  IN  IF m.op = "auth" THEN SettleAll(s2, L, m.success) ELSE s2

\* The 'update' event with the payload left out.
UpdateEventBare(st, k, m) ==
  Emit(st, "update", k, [topic |-> m.topic, data |-> "none", type |-> m.type])

\* The 'update' event: { category, topic, data, type }.
UpdateEvent(st, k, m) ==
  Emit(st, "update", k, [topic |-> m.topic, data |-> m.data, type |-> m.type])

\* handleMessage that looks at the topic before the operation.
HandleMessageTopicFirst(st, k, m) ==
  IF m.op = "pong" THEN st
  ELSE IF Truthy(m.topic) THEN UpdateEvent(st, k, m)
  ELSE IF m.op \in {"subscribe", "unsubscribe", "auth"} THEN EmitResponse(st, k, m)
  ELSE Emit(st, "message", k, "none")

\* handleMessage that passes a pong on to the 'message' observers.
HandleMessagePongPassed(st, k, m) ==
  IF m.op \in {"subscribe", "unsubscribe"} THEN EmitResponse(st, k, m)
  ELSE IF m.op = "auth" THEN EmitResponse(st, k, m)
  ELSE IF Truthy(m.topic) THEN UpdateEvent(st, k, m)
  ELSE Emit(st, "message", k, "none")

HandleMessage(st, k, m) ==
  IF m.op = "pong" THEN st
  ELSE IF m.op \in {"subscribe", "unsubscribe"} THEN EmitResponse(st, k, m)
  ELSE IF m.op = "auth" THEN EmitResponse(st, k, m)
  ELSE IF Truthy(m.topic) THEN UpdateEvent(st, k, m)
  ELSE Emit(st, "message", k, "none")

\* onmessage that gives up the connection on a frame it cannot parse.
OnMessageHandlerStrict(st, sid, m) ==
  LET k == st.socks[sid].key IN
  IF ~m.valid
  THEN [Emit(st, "error", k, "parse") EXCEPT !.socks[sid] = TransportClose(@)]
  ELSE IF m.nul THEN Emit(st, "error", k, "type")
  ELSE HandleMessage(st, k, m)

\* onmessage: JSON.parse and handleMessage inside one try; reading message.op
\* of null throws a TypeError, caught like a parse failure.
OnMessageHandler(st, sid, m) ==
  LET k == st.socks[sid].key IN
  IF ~m.valid THEN Emit(st, "error", k, "parse")
  ELSE IF m.nul THEN Emit(st, "error", k, "type")
  ELSE HandleMessage(st, k, m)

\* The setTimeout of authenticate() fires.
AuthTimeoutHandler(st, sid) ==
  IF st.socks[sid].auth # "pending" THEN st
  ELSE Reject([st EXCEPT !.socks[sid].auth = "failed",
                         !.socks[sid].listening = FALSE], sid)

\* The setTimeout callback of handleReconnection, up to its await.
ReconnectTimerHandler(st, k) == ConnectWS(st, k, "reconn")

\* ------------------------------------------------------------ bookkeeping
\* A closed socket none of whose timers can act any more takes no further part:
\* it is dropped, and the registry that still holds it holds a closed socket.
Inert(sock) == sock.rs = "CLOSED" /\ sock.auth # "pending"

Collect(st) ==
  [st EXCEPT !.socks = [i \in SockIds |->
                         IF Inert(st.socks[i]) THEN NoSock ELSE st.socks[i]],
             !.ws = [k \in Keys |->
                      IF st.ws[k] > 0 /\ Inert(st.socks[st.ws[k]]) THEN Gone
                      ELSE st.ws[k]]]

\* An exception that escapes a socket callback is an uncaught exception of the
\* process, which ends it; the error a call throws goes to its caller.
CommitState(st0) ==
  LET st == Collect(st0) IN
  /\ host # "down"
  /\ ~st.overflow
  /\ \A k \in Keys : st.pingTimers[k] <= MaxPing
  /\ used' = st.used
  /\ budget' = st.budget
  /\ hasCreds' = st.hasCreds
  /\ restore' = st.restore
  /\ reconnectTimeout' = st.reconnectTimeout
  /\ ws' = st.ws
  /\ connState' = st.connState
  /\ topics' = st.topics
  /\ socks' = st.socks
  /\ created' = st.created
  /\ timers' = st.timers
  /\ pingTimers' = st.pingTimers
  /\ attempts' = st.attempts
  /\ replays' = st.replays
  /\ closedByUser' = st.closedByUser
  /\ host' = IF st.err = "Unhandled" THEN "down" ELSE st.host

\* The request ids count in the runs about them only: elsewhere every id is
\* the first one.
Commit(st0) ==
  /\ CommitState(st0)
  /\ UNCHANGED <<requestIdCounter, issued>>

\* ------------------------------------------------------------------- Init
\* The client after construction, in a run whose application uses the
\* categories U.
SocketBudget(U) ==
  IF U = Keys THEN MaxShared
  ELSE IF "private" \in U THEN MaxPrivate
  ELSE MaxSockets

\* The client after construction, in a run whose application uses the
\* categories U and may create b sockets.
InitClient(U, b) ==
  /\ used = U
  /\ budget = b
  /\ hasCreds \in BOOLEAN
  /\ restore \in BOOLEAN
  /\ reconnectTimeout = Baseline
  /\ ws = [k \in Keys |-> 0]
  /\ connState = [k \in Keys |-> "INITIAL"]
  /\ topics = [k \in Keys |-> {}]
  /\ socks = [i \in SockIds |-> NoSock]
  /\ created = [k \in Keys |-> 0]
  /\ timers = [k \in Keys |-> 0]
  /\ pingTimers = [k \in Keys |-> 0]
  /\ attempts = [k \in Keys |-> <<>>]
  /\ replays = [k \in Keys |-> 0]
  /\ closedByUser = [k \in Keys |-> FALSE]
  /\ requestIdCounter = 0
  /\ issued = {}

\* ... in an application that listens for the client's 'error' event.
InitRun(U, b) ==
  /\ InitClient(U, b)
  /\ host = "observed"

InitWith(U) == InitRun(U, SocketBudget(U))

Init == \E k \in Keys : InitWith({k})

\* ---------------------------------------------------------------- the turns
\* One turn of the event loop, as the state it leaves and what it put out.
TurnConnect(k) == [Connect(Cur, k) EXCEPT !.closedByUser[k] = FALSE]

TurnClose(k) == [Close(Cur, k) EXCEPT !.closedByUser[k] = TRUE]

TurnCloseAll ==
  [CloseAll(Cur) EXCEPT !.closedByUser = [k \in Keys |-> closedByUser[k] \/ ws[k] # 0]]

\* The connection is established: readyState OPEN, then onopen.
TurnOpen(sid) == OnOpenHandler([Cur EXCEPT !.socks[sid].rs = "OPEN"], sid)

\* History: the unintended closure of a connection that was established (one
\* the application opened, or a reconnect that succeeded) is a disconnect to
\* recover from; the closure of a failed reconnect attempt is not.
Disconnected(st, sock, code) ==
  IF /\ code # NormalClose
     /\ st.restore
     /\ sock.by = "caller" \/ (sock.rs # "CONNECTING" /\ sock.auth \in {"none", "ok"})
  THEN [st EXCEPT !.replays[sock.key] = @ - 1]
  ELSE st

\* The connection attempt fails (or is aborted by ws.close() before it opened):
\* the transport raises error and then close with code 1006 in one task. The
\* continuation of the rejected promise runs right after onerror where the
\* event dispatch drains microtasks between listeners, and after onclose where
\* both events are emitted from one call stack.  An exception that escapes
\* onerror ends the turn there.
TurnConnectFail(sid, drained) ==
  LET st0 == [Cur EXCEPT !.socks[sid].rs = "CLOSED"] IN
  Disconnected(
    IF Emit(st0, "error", socks[sid].key, "socket").err # "none"
    THEN OnErrorHandler(st0, sid)
    ELSE IF drained
    THEN OnCloseHandler(OnErrorHandler(st0, sid), sid, AbnormalCode)
    ELSE Reject(OnCloseHandler(Emit(st0, "error", socks[sid].key, "socket"),
                               sid, AbnormalCode), sid),
    socks[sid], AbnormalCode)

\* An established connection breaks: error now, close (1006) in a later task.
TurnError(sid) == OnErrorHandler([Cur EXCEPT !.socks[sid].rs = "BROKEN"], sid)

\* The close event of a socket that had opened, with the code the transport reports.
TurnSocketClose(sid, code) ==
  Disconnected(OnCloseHandler([Cur EXCEPT !.socks[sid].rs = "CLOSED",
                                          !.socks[sid].authReq = FALSE], sid, code),
               socks[sid], code)

TurnMessage(sid, m) == OnMessageHandler(Cur, sid, m)

\* The server's answer to the auth frame it received on socket sid.
TurnAuthReply(sid, m) ==
  OnMessageHandler([Cur EXCEPT !.socks[sid].authReq = FALSE], sid, m)

TurnReconnectTimer(k) == ReconnectTimerHandler([Cur EXCEPT !.timers[k] = @ - 1], k)

\* -------------------------------------------------- the caller's requests
CallConnect == \E k \in used : Commit(TurnConnect(k))

CallSubscribe ==
  \E k \in used : \E ts \in SUBSET TopicsOf(k) \ {{}} : Commit(Subscribe(Cur, k, ts))

CallUnsubscribe ==
  \E k \in used : \E ts \in SUBSET TopicsOf(k) \ {{}} : Commit(Unsubscribe(Cur, k, ts))

CallSubscribePrivateTopic ==
  \E ts \in SUBSET TopicsOf("private") \ {{}} :
    /\ "private" \in used
    /\ Commit(SubscribePrivateTopic(Cur, ts))

CallClose == \E k \in used : Commit(TurnClose(k))

CallCloseAll ==
  /\ used # {}
  /\ Commit(TurnCloseAll)

\* --------------------------------------------- the transport and the timers
SocketOpen ==
  \E sid \in SockIds :
    /\ socks[sid].rs = "CONNECTING"
    /\ Commit(TurnOpen(sid))

ConnectFail ==
  \E sid \in SockIds : \E drained \in BOOLEAN :
    /\ socks[sid].rs \in {"CONNECTING", "ABORTING"}
    /\ Commit(TurnConnectFail(sid, drained))

SocketError ==
  \E sid \in SockIds :
    /\ socks[sid].rs = "OPEN"
    /\ Commit(TurnError(sid))

SocketClose ==
  \E sid \in SockIds : \E code \in CloseCodes :
    /\ socks[sid].rs \in {"OPEN", "CLOSING", "BROKEN"}
    /\ socks[sid].rs = "BROKEN" => code = AbnormalCode
    /\ Commit(TurnSocketClose(sid, code))

\* A frame arrives on an open socket.
SocketMessage ==
  \E sid \in SockIds : \E m \in DataFrames :
    /\ socks[sid].rs = "OPEN"
    /\ Commit(TurnMessage(sid, m))

\* The server answers an auth request, once.
AuthReply ==
  \E sid \in SockIds : \E m \in AuthFrames :
    /\ socks[sid].rs = "OPEN"
    /\ socks[sid].authReq
    /\ Commit(TurnAuthReply(sid, m))

AuthTimeout ==
  \E sid \in SockIds :
    /\ socks[sid].auth = "pending"
    /\ Commit(AuthTimeoutHandler(Cur, sid))

ReconnectTimer ==
  \E k \in Keys :
    /\ timers[k] > 0
    /\ Commit(TurnReconnectTimer(k))

HeartbeatTick ==
  \E k \in Keys :
    /\ pingTimers[k] > 0
    /\ Commit(PingTick(Cur, k))

Next ==
  \/ CallConnect
  \/ CallSubscribe
  \/ CallUnsubscribe
  \/ CallSubscribePrivateTopic
  \/ CallClose
  \/ CallCloseAll
  \/ SocketOpen
  \/ ConnectFail
  \/ SocketError
  \/ SocketClose
  \/ SocketMessage
  \/ AuthReply
  \/ AuthTimeout
  \/ ReconnectTimer
  \/ HeartbeatTick

\* A run that uses one category, the public one or the private one.
Spec == Init /\ [][Next]_vars

\* ------------------------------------------------------ a run about recovery
\* The public category with auto-restore, left to the transport and the timers
\* after the application connected (and subscribed): no close call. The
\* history counters and the heartbeat, which the reconnect loop never reads,
\* are left out of the state, so that the loop can run without end; of the
\* reconnect timers pending at one time, at most MaxTimers are told apart.
\* The turn's result st0 is worked out once and then committed.
CommitLive(st0) ==
  \E st \in {st0} :
    Commit([st EXCEPT !.timers = [k \in Keys |-> Min(st.timers[k], MaxTimers)],
                      !.created = created, !.attempts = attempts,
                      !.replays = replays, !.pingTimers = pingTimers])

LiveConnect == \E k \in used : ws[k] = 0 /\ CommitLive(TurnConnect(k))

LiveSubscribe ==
  \E k \in used : \E ts \in SUBSET TopicsOf(k) \ {{}} : CommitLive(Subscribe(Cur, k, ts))

LiveOpen ==
  \E sid \in SockIds :
    /\ socks[sid].rs = "CONNECTING"
    /\ CommitLive(TurnOpen(sid))

LiveConnectFail ==
  \E sid \in SockIds : \E drained \in BOOLEAN :
    /\ socks[sid].rs = "CONNECTING"
    /\ CommitLive(TurnConnectFail(sid, drained))

LiveError ==
  \E sid \in SockIds :
    /\ socks[sid].rs = "OPEN"
    /\ CommitLive(TurnError(sid))

\* The close event that follows the error of a socket that broke.
LiveClose ==
  \E sid \in SockIds :
    /\ socks[sid].rs = "BROKEN"
    /\ CommitLive(TurnSocketClose(sid, AbnormalCode))

\* The server or the network ends an open connection.
LiveDrop ==
  \E sid \in SockIds : \E code \in CloseCodes :
    /\ socks[sid].rs = "OPEN"
    /\ CommitLive(TurnSocketClose(sid, code))

LiveTimer ==
  \E k \in Keys :
    /\ timers[k] > 0
    /\ CommitLive(TurnReconnectTimer(k))

NextLive ==
  \/ LiveConnect
  \/ LiveSubscribe
  \/ LiveOpen
  \/ LiveConnectFail
  \/ LiveError
  \/ LiveClose
  \/ LiveDrop
  \/ LiveTimer

InitLive ==
  /\ InitRun({"spot"}, MaxSockets)
  /\ ~hasCreds
  /\ restore

\* Timers fire, a socket that broke closes, and the transport eventually
\* accepts a connection: of the attempts made again and again, one opens.
SpecLive ==
  /\ InitLive
  /\ [][NextLive]_vars
  /\ WF_vars(LiveTimer)
  /\ WF_vars(LiveClose)
  /\ SF_vars(LiveOpen)

\* -------------------------------------------------------- a run about timing
\* The public category, left to run without end: the application connects and
\* closes, the transport opens, breaks and closes sockets, the timers fire and
\* the server answers pings or stays silent. The history counters are left out
\* of the state; of the timers of one kind pending at one time only so many
\* are told apart. The turn's result st0 is worked out once and then committed.
CommitFair(st0) ==
  \E st \in {st0} :
    Commit([st EXCEPT !.timers = [k \in Keys |-> Min(st.timers[k], MaxTimers)],
                      !.pingTimers = [k \in Keys |-> Min(st.pingTimers[k], MaxPing)],
                      !.created = created, !.attempts = attempts,
                      !.replays = replays])

\* A tick of a heartbeat; the socket a ping went out on now awaits a pong.
TurnTick(k) ==
  LET r == PingTick(Cur, k) IN
  IF r.sent = <<>> THEN r ELSE [r EXCEPT !.socks[r.sent[1].sock].pinged = TRUE]

\* The server's pong arrives.
TurnPong(sid) ==
  [TurnMessage(sid, Frame(TRUE, "pong", "none", TRUE)) EXCEPT !.socks[sid].pinged = FALSE]

FairConnect == \E k \in used : CommitFair(TurnConnect(k))

FairCloseCall == \E k \in used : CommitFair(TurnClose(k))

FairOpen ==
  \E sid \in SockIds :
    /\ socks[sid].rs = "CONNECTING"
    /\ CommitFair(TurnOpen(sid))

FairConnectFail ==
  \E sid \in SockIds : \E drained \in BOOLEAN :
    /\ socks[sid].rs = "CONNECTING"
    /\ CommitFair(TurnConnectFail(sid, drained))

\* The closure of a socket that ws.close() aborted while it was connecting.
FairAborted ==
  \E sid \in SockIds : \E drained \in BOOLEAN :
    /\ socks[sid].rs = "ABORTING"
    /\ CommitFair(TurnConnectFail(sid, drained))

FairError ==
  \E sid \in SockIds :
    /\ socks[sid].rs = "OPEN"
    /\ CommitFair(TurnError(sid))

\* The close event of a socket that is closing, after ws.close() or an error.
FairClosed ==
  \E sid \in SockIds : \E code \in CloseCodes :
    /\ socks[sid].rs \in {"CLOSING", "BROKEN"}
    /\ socks[sid].rs = "BROKEN" => code = AbnormalCode
    /\ CommitFair(TurnSocketClose(sid, code))

\* The server or the network ends an open connection.
FairDrop ==
  \E sid \in SockIds : \E code \in CloseCodes :
    /\ socks[sid].rs = "OPEN"
    /\ CommitFair(TurnSocketClose(sid, code))

FairTimer ==
  \E k \in Keys :
    /\ timers[k] > 0
    /\ CommitFair(TurnReconnectTimer(k))

FairTick ==
  \E k \in Keys :
    /\ pingTimers[k] > 0
    /\ CommitFair(TurnTick(k))

FairPong ==
  \E sid \in SockIds :
    /\ socks[sid].rs = "OPEN" /\ socks[sid].pinged
    /\ CommitFair(TurnPong(sid))

NextFair ==
  \/ FairConnect
  \/ FairCloseCall
  \/ FairOpen
  \/ FairConnectFail
  \/ FairAborted
  \/ FairError
  \/ FairClosed
  \/ FairDrop
  \/ FairTimer
  \/ FairTick
  \/ FairPong

InitFair ==
  /\ InitRun({"spot"}, MaxSockets)
  /\ ~hasCreds

\* Timers and heartbeats fire, and a socket that is closing closes. Nothing
\* makes the server answer or the application call.
SpecFair ==
  /\ InitFair
  /\ [][NextFair]_vars
  /\ WF_vars(FairTimer)
  /\ WF_vars(FairTick)
  /\ WF_vars(FairAborted)
  /\ WF_vars(FairClosed)

\* A run about the private handshake: the private category, with credentials
\* and auto-restore, and room for one more socket.
InitAuth ==
  /\ InitRun({"private"}, MaxAuth)
  /\ hasCreds
  /\ restore

SpecAuth == InitAuth /\ [][Next]_vars

\* ======================================================================
\* Request ids: the runs in which the counter and the clock are told apart
\* ======================================================================
MaxRequests == 3
MaxClock == 1

\* What Date.now() may return during a turn.
Times == 0..MaxClock

\* The subscribe and unsubscribe frames among those a turn sent.
RequestFrames(r) == {i \in 1..Len(r.sent) : r.sent[i].op \in {"subscribe", "unsubscribe"}}

\* The client at the start of a turn that runs at time now.
At(now) == [Cur EXCEPT !.now = now]

\* The turn's result with the request counter and the ids it sent recorded;
\* the history counters of the other runs stand still.
CommitIds(st0) ==
  \E st \in {st0} :
    /\ st.requestIdCounter <= MaxRequests
    /\ CommitState([st EXCEPT !.timers = [k \in Keys |-> Min(st.timers[k], MaxTimers)],
                              !.created = created, !.attempts = attempts,
                              !.replays = replays, !.pingTimers = pingTimers])
    /\ requestIdCounter' = st.requestIdCounter
    /\ issued' = issued \cup {st.sent[i].req_id : i \in RequestFrames(st)}

IdsConnect == \E k \in used : CommitIds(TurnConnect(k))

IdsOpen ==
  \E sid \in SockIds : \E now \in Times :
    /\ socks[sid].rs = "CONNECTING"
    /\ CommitIds(OnOpenHandler([At(now) EXCEPT !.socks[sid].rs = "OPEN"], sid))

IdsSubscribe ==
  \E k \in used : \E ts \in SUBSET TopicsOf(k) \ {{}} : \E now \in Times :
    CommitIds(Subscribe(At(now), k, ts))

IdsUnsubscribe ==
  \E k \in used : \E ts \in SUBSET TopicsOf(k) \ {{}} : \E now \in Times :
    CommitIds(Unsubscribe(At(now), k, ts))

IdsClosed ==
  \E sid \in SockIds : \E code \in CloseCodes :
    /\ socks[sid].rs \in {"OPEN", "CLOSING", "BROKEN"}
    /\ socks[sid].rs = "BROKEN" => code = AbnormalCode
    /\ CommitIds(TurnSocketClose(sid, code))

IdsTimer == \E k \in used : timers[k] > 0 /\ CommitIds(TurnReconnectTimer(k))

NextIds ==
  \/ IdsConnect
  \/ IdsOpen
  \/ IdsSubscribe
  \/ IdsUnsubscribe
  \/ IdsClosed
  \/ IdsTimer

InitIds ==
  /\ InitRun({"spot"}, MaxPrivate)
  /\ ~hasCreds
  /\ restore

SpecIds == InitIds /\ [][NextIds]_vars

\* A run of an application that registered no 'error' listener.
InitBare ==
  /\ \E k \in Keys : InitClient({k}, MaxPrivate)
  /\ host = "bare"

SpecBare == InitBare /\ [][Next]_vars

\* A run that uses both categories side by side.
InitBoth == InitWith(Keys)

SpecBoth == InitBoth /\ [][Next]_vars

\* ======================================================================
\* The claims
\* ======================================================================
\* C1: a close requested with close(key) never leads to a reconnect attempt:
\* whatever close code the transport reports for the closure of a socket that
\* close(key) put into CLOSING, the close event schedules no reconnect timer.
C1_ExplicitCloseNeverReconnects ==
  \A sid \in SockIds : \A code \in CloseCodes :
    (socks[sid].rs = "CLOSING" /\ closedByUser[socks[sid].key])
      => LET r == TurnSocketClose(sid, code) IN
         r.sched = <<>> /\ r.timers = timers

\* C2: the topics tracked for a key are replayed by exactly one subscribe
\* frame per recovered disconnect: the replay frames the reconnect loop has
\* sent for a key never outnumber the disconnects of that key.
C2_OneReplayPerDisconnect ==
  \A k \in Keys : replays[k] <= 0

\* C3: connect(key) called again without a close in between, while the key
\* has a live socket (connecting or open), leaves exactly one live socket.
C3_ConnectTwiceOneSocket ==
  \A k \in used :
    (LiveSockets(socks, k) # {} /\ ~closedByUser[k])
      => LET r == TurnConnect(k) IN
         ~r.overflow => Cardinality(LiveSockets(r.socks, k)) = 1

\* C4: a private-topic subscription issued while the stored private socket has
\* not completed a successful authentication handshake fails with an error,
\* sends no frame and adds no topic.
C4_PrivateSubscribeNeedsAuth ==
  \A ts \in SUBSET TopicsOf("private") \ {{}} :
    ~(ws["private"] > 0 /\ socks[ws["private"]].auth = "ok")
      => LET r == SubscribePrivateTopic(Cur, ts) IN
         r.err # "none" /\ r.sent = <<>> /\ r.topics = topics

\* C5: without an API key or secret no socket is ever created for the private
\* key: its registry record stays empty and its state stays INITIAL.
C5_NoCredentialsNoPrivateSocket ==
  ~hasCreds => ws["private"] = 0 /\ connState["private"] = "INITIAL"

\* C6: the reconnect delays scheduled for a key since its last successful
\* connection are baseline, 2*baseline, 4*baseline, ..., capped at the ceiling.
C6_DelaysDoubleFromBaseline ==
  \A k \in Keys : \A i \in 1..Len(attempts[k]) :
    attempts[k][i] = Min(Baseline * 2^(i - 1), Ceiling)

\* C7: after a reconnect attempt succeeded the backoff delay is the baseline
\* again: while a used key has scheduled no attempt since its last success,
\* the delay the next closure will use equals the baseline.
C7_BackoffResetOnSuccess ==
  \A k \in used : attempts[k] = <<>> => reconnectTimeout = Baseline

\* C8: from close(key) until the next connect(key) the key is never CONNECTED
\* and a reconnect timer of the key that fires creates no socket.
C8_CloseSuppressesReconnect ==
  \A k \in Keys :
    closedByUser[k]
      => /\ connState[k] # "CONNECTED"
         /\ timers[k] > 0 => LET r == TurnReconnectTimer(k) IN
                             r.created = created /\ r.ws = ws

\* C9: every key has at most one live socket (connecting or open).
C9_OneLiveSocketPerKey ==
  \A k \in Keys : Cardinality(LiveSockets(socks, k)) <= 1

\* C10: subscribe and unsubscribe on a key whose recorded state is not
\* CONNECTED, or whose stored socket is not open, fail with the not-connected
\* error and change nothing: no frame sent, topic set as before, nothing queued.
C10_NotConnectedFailsFast ==
  \A k \in Keys : \A ts \in SUBSET TopicsOf(k) \ {{}} :
    (connState[k] # "CONNECTED" \/ StoredReadyState(Cur, k) # "OPEN")
      => /\ Subscribe(Cur, k, ts) = Throw(Cur, "NotConnected")
         /\ Unsubscribe(Cur, k, ts) = Throw(Cur, "NotConnected")

\* C10 witness: a key with tracked topics whose stored socket is open while the
\* recorded state is not CONNECTED, where subscribe fails and sends nothing.
C10_Witness ==
  \E k \in used :
    /\ topics[k] # {}
    /\ connState[k] # "CONNECTED"
    /\ StoredReadyState(Cur, k) = "OPEN"
    /\ Subscribe(Cur, k, TopicsOf(k)).err = "NotConnected"
    /\ Subscribe(Cur, k, TopicsOf(k)).sent = <<>>

\* C11: subscribe on a connected key sends exactly one subscribe frame, on the
\* stored socket, whose args are the whole topic list, and adds every listed
\* topic to the key's topic set at once; a subscribe that fails sends nothing
\* and adds no topic.
C11_SubscribeSendsOnceAndTracks ==
  \A k \in Keys : \A ts \in SUBSET AnyTopics \ {{}} :
    LET r == Subscribe(Cur, k, ts) IN
    /\ IsWsOpen(Cur, k) => r.err = "none"
    /\ r.err = "none"
         => /\ r.sent = <<[sock |-> ws[k], key |-> k, op |-> "subscribe", args |-> ts,
                          req_id |-> RequestId(r)]>>
            /\ r.topics = [topics EXCEPT ![k] = @ \cup ts]
    /\ r.err # "none" => r.sent = <<>> /\ r.topics = topics

\* C11 witness: a connected key that already tracks a topic, where a subscribe
\* of two topics sends one frame carrying both and tracks both.
C11_Witness ==
  \E k \in used :
    /\ IsWsOpen(Cur, k)
    /\ topics[k] # {}
    /\ Len(Subscribe(Cur, k, {"orderbook", "trade"}).sent) = 1
    /\ Subscribe(Cur, k, {"orderbook", "trade"}).sent[1].args = {"orderbook", "trade"}
    /\ {"orderbook", "trade"} \subseteq Subscribe(Cur, k, {"orderbook", "trade"}).topics[k]

\* C12: the topic sets change only in a subscribe or unsubscribe call of the
\* caller: every other step (connect, close, closeAll, socket open, error and
\* close, inbound frames, timers, the reconnect with its replay) leaves them as
\* they were.
C12_TopicsChangeOnlyByCaller ==
  [][topics' # topics => (CallSubscribe \/ CallUnsubscribe \/ CallSubscribePrivateTopic)]_vars

\* C12 witness: a reconnect socket of a key with tracked topics is about to
\* open; its opening sends the replay frame and leaves the topic set as it was.
C12_Witness ==
  \E sid \in SockIds :
    /\ socks[sid].rs = "CONNECTING"
    /\ socks[sid].waiter = "reconn"
    /\ topics[socks[sid].key] # {}
    /\ TurnOpen(sid).sent # <<>>
    /\ TurnOpen(sid).sent[1].op = "subscribe"
    /\ TurnOpen(sid).topics = topics

\* The socket the registry holds for key k; a stored socket that has closed
\* stays the same closed socket.
Stored(w, sk, k) == IF w[k] > 0 /\ sk[w[k]].rs = "CLOSED" THEN Gone ELSE w[k]

\* C13: categories are independent: a step other than closeAll changes the
\* connection state, the stored socket and the topic set of at most one key.
C13_KeysIndependent ==
  [][CallCloseAll \/
     \E k \in Keys : \A k2 \in Keys \ {k} :
       /\ connState'[k2] = connState[k2]
       /\ Stored(ws', socks', k2) = Stored(ws, socks, k2)
       /\ topics'[k2] = topics[k2]]_vars

\* C13 witness: the private key is connected and tracks a topic while an open
\* socket of the public key is about to close abnormally; the close event
\* leaves the private key's record as it was.
C13_Witness ==
  \E sid \in SockIds :
    /\ socks[sid].key = "spot" /\ socks[sid].rs = "OPEN"
    /\ connState["private"] = "CONNECTED" /\ topics["private"] # {}
    /\ restore
    /\ TurnSocketClose(sid, AbnormalCode).connState["spot"] = "INITIAL"
    /\ TurnSocketClose(sid, AbnormalCode).connState["private"] = "CONNECTED"
    /\ TurnSocketClose(sid, AbnormalCode).topics["private"] = topics["private"]

\* C14: the backoff delay is kept per key: when a reconnect attempt of one key
\* fails, the delay the next reconnect of every other key is scheduled with is
\* what it was before the failure.
C14_BackoffPerKey ==
  \A sid \in SockIds : \A drained \in BOOLEAN :
    (socks[sid].rs = "CONNECTING" /\ socks[sid].waiter = "reconn")
      => \A k2 \in Keys \ {socks[sid].key} :
           LET before == HandleReconnection(Cur, k2).sched
               after  == HandleReconnection(
                           [TurnConnectFail(sid, drained) EXCEPT !.sched = <<>>], k2).sched
           IN  after[1].delay = before[1].delay

\* A turn of a socket or timer callback sent a subscribe frame: a replay.
ReplayIn(r) == \E i \in 1..Len(r.sent) : r.sent[i].op = "subscribe"

\* C15: a replay frame is sent only once the key is CONNECTED and, on the
\* private key with credentials, only in the turn that receives the auth
\* acknowledgement with success=true on the very socket the reconnect opened;
\* never when a socket merely opens, after a rejection or after a timeout.
C15_ReplayAfterReauth ==
  /\ \A sid \in SockIds :
       socks[sid].rs = "CONNECTING"
         => LET r == TurnOpen(sid) IN
            ReplayIn(r) => /\ r.connState[socks[sid].key] = "CONNECTED"
                           /\ ~(socks[sid].key = "private" /\ hasCreds)
  /\ \A sid \in SockIds : \A m \in AuthFrames :
       (socks[sid].rs = "OPEN" /\ socks[sid].authReq)
         => LET r == TurnAuthReply(sid, m) IN
            ReplayIn(r) => /\ m.success
                           /\ r.connState[socks[sid].key] = "CONNECTED"
                           /\ \A i \in 1..Len(r.settled) :
                                r.settled[i].by = "reconn" => r.settled[i].sock = sid
  /\ \A sid \in SockIds :
       socks[sid].auth = "pending" => ~ReplayIn(AuthTimeoutHandler(Cur, sid))

\* C16: the acknowledgement of a pending handshake decides it: received on
\* the socket whose auth frame is unanswered, success=true resolves the
\* handshake and success=false rejects it; only a handshake that got no
\* acknowledgement is left to the timeout.
C16_AckDecidesHandshake ==
  \A sid \in SockIds : \A m \in AuthFrames :
    (socks[sid].rs = "OPEN" /\ socks[sid].authReq /\ socks[sid].auth = "pending")
      => TurnAuthReply(sid, m).socks[sid].auth = IF m.success THEN "ok" ELSE "failed"

\* A turn emitted 'open', or resolved the promise of a connect.
SignalsOpen(r) ==
  \/ \E i \in 1..Len(r.emitted) : r.emitted[i].ev = "open"
  \/ \E i \in 1..Len(r.settled) : r.settled[i].how = "resolved"

\* C17: with credentials, 'open' is emitted and a connect of the private key
\* resolves only after the auth acknowledgement with success=true of that
\* connection: not when the socket opens, not on a rejection or a timeout, and
\* in the turn that receives an acknowledgement only for the socket that
\* received it.
C17_OpenOnlyAfterAuth ==
  hasCreds =>
    \A sid \in SockIds :
      socks[sid].key = "private" =>
        /\ socks[sid].rs = "CONNECTING" => ~SignalsOpen(TurnOpen(sid))
        /\ socks[sid].auth = "pending" => ~SignalsOpen(AuthTimeoutHandler(Cur, sid))
        /\ (socks[sid].rs = "OPEN" /\ socks[sid].authReq)
             => \A m \in AuthFrames :
                  LET r == TurnAuthReply(sid, m) IN
                  SignalsOpen(r)
                    => /\ m.success
                       /\ \A i \in 1..Len(r.settled) :
                            r.settled[i].how = "resolved" => r.settled[i].sock = sid

\* A reconnect of key k has succeeded: the key is CONNECTED and a socket the
\* reconnect loop created is open with its promise resolved ('open' emitted).
Recovered(k) ==
  /\ connState[k] = "CONNECTED"
  /\ \E sid \in SockIds :
       /\ socks[sid].key = k /\ socks[sid].by = "reconn"
       /\ socks[sid].rs = "OPEN" /\ socks[sid].waiter = "none"
       /\ socks[sid].auth \in {"none", "ok"}

\* C18: the reconnect loop has no retry ceiling: once a reconnect is scheduled
\* for a key, and however many attempts fail, the key is eventually CONNECTED
\* again through a socket of the loop whose opening emitted 'open'.
C18_ReconnectUntilConnected ==
  \A k \in Keys : (timers[k] > 0) ~> Recovered(k)

\* C18 witness: a reconnect succeeded after attempts failed often enough for
\* the delay to have reached the ceiling.
C18_Witness ==
  \E k \in Keys : Recovered(k) /\ reconnectTimeout = Ceiling

\* The parsed frames the router is asked about: every operation, with and
\* without a topic (absent, empty, present), type and payload.
FrameOps == {"none", "pong", "subscribe", "unsubscribe", "auth", "ping"}

ParsedFrames ==
  { [Frame(TRUE, op, topic, TRUE) EXCEPT !.type = ty, !.data = d] :
      op \in FrameOps, topic \in {"none", "", "orderbook"},
      ty \in {"none", "delta"}, d \in {"none", "bids"} }

\* The events of a turn that onmessage and handleMessage emit themselves, by
\* name ('open' comes from the continuation of onopen that an auth reply
\* releases).
IsRouted(e) ==
  \/ e.ev \in {"response", "update", "message"}
  \/ e.ev = "error" /\ e.arg \in {"parse", "type"}

Routed(r) ==
  LET sel == SelectSeq(r.emitted, IsRouted) IN [i \in 1..Len(sel) |-> sel[i].ev]

\* The outcome the precedence gives a frame.
Precedence(m) ==
  IF m.op = "pong" THEN <<>>
  ELSE IF m.op \in {"subscribe", "unsubscribe", "auth"} THEN <<"response">>
  ELSE IF m.topic \notin {"none", ""} THEN <<"update">>
  ELSE <<"message">>

RoutedByPrecedence(F) ==
  \A sid \in SockIds :
    socks[sid].rs = "OPEN"
      => \A m \in F : Routed(TurnMessage(sid, m)) = Precedence(m)

\* C19 as stated: every frame that parses as JSON, the literal null included,
\* has exactly one outcome, chosen by the precedence pong (dropped), operation
\* echo ('response'), topic ('update'), anything else ('message').
C19_EveryParsedFrameRouted == RoutedByPrecedence(ParsedFrames \cup {NullFrame})

\* C19 amended: every frame that parses to a JSON value other than null has
\* exactly one outcome, chosen by that precedence; an echo of subscribe that
\* also carries a topic is a 'response' and no 'update'.
C19_NonNullFramesRouted == RoutedByPrecedence(ParsedFrames)

\* C19 witness: an open socket on which a subscribe echo carrying a topic is
\* routed as one 'response', and a frame with neither as one 'message'.
C19_Witness ==
  \E sid \in SockIds :
    /\ socks[sid].rs = "OPEN"
    /\ Routed(TurnMessage(sid, Frame(TRUE, "subscribe", "orderbook", TRUE))) = <<"response">>
    /\ Routed(TurnMessage(sid, Frame(TRUE, "none", "none", TRUE))) = <<"message">>

\* C20: a data frame with a topic, received on an open socket of a category,
\* produces exactly one event, an 'update' whose category is the socket's
\* category and whose topic, type and data are the frame's.
C20_UpdateCarriesFrame ==
  \A sid \in SockIds :
    socks[sid].rs = "OPEN"
      => \A topic \in AnyTopics : \A ty \in {"none", "snapshot", "delta"} :
           \A d \in {"none", "bids", "asks"} :
             TurnMessage(sid, Update(topic, ty, d)).emitted
               = << [ev |-> "update", key |-> socks[sid].key,
                     arg |-> [topic |-> topic, data |-> d, type |-> ty]] >>

\* C20 witness: both categories connected, and a snapshot received on the
\* private socket is emitted as an 'update' of the private category.
C20_Witness ==
  \E sid \in SockIds :
    /\ socks[sid].rs = "OPEN" /\ socks[sid].key = "private"
    /\ connState["private"] = "CONNECTED" /\ connState["spot"] = "CONNECTED"
    /\ Len(TurnMessage(sid, Update("order", "snapshot", "bids")).emitted) = 1
    /\ TurnMessage(sid, Update("order", "snapshot", "bids")).emitted[1].key = "private"
    /\ TurnMessage(sid, Update("order", "snapshot", "bids")).emitted[1].arg.data = "bids"

\* The pong notifications: op 'pong', with or without other fields.
PongFrames == {m \in ParsedFrames : m.op = "pong"}

\* C21: a pong frame received on an open socket emits no event at all (no
\* 'update', 'response', 'error' or 'message') and leaves every key's
\* connection state and topic set as they were.
C21_PongSilentlyConsumed ==
  \A sid \in SockIds :
    socks[sid].rs = "OPEN"
      => \A m \in PongFrames :
           LET r == TurnMessage(sid, m) IN
           /\ r.emitted = <<>>
           /\ r.connState = connState
           /\ r.topics = topics

\* C21 witness: a pong consumed on the open socket of a connected key that
\* tracks topics.
C21_Witness ==
  \E sid \in SockIds :
    /\ socks[sid].rs = "OPEN"
    /\ connState[socks[sid].key] = "CONNECTED"
    /\ topics[socks[sid].key] # {}
    /\ TurnMessage(sid, Frame(TRUE, "pong", "none", TRUE)).emitted = <<>>

\* Texts that are not JSON, whatever they look like.
MalformedFrames ==
  { Frame(FALSE, op, topic, b) :
      op \in {"none", "pong", "auth"}, topic \in {"none", "orderbook"}, b \in BOOLEAN }

\* C22: a frame that is not valid JSON, received on an open socket, produces
\* one 'error' event for the socket's category and nothing else: nothing is
\* sent, no promise settles, no reconnect is scheduled, and the registry
\* (state, stored socket, topics) and every socket stay as they were.
C22_MalformedFrameOnlyError ==
  \A sid \in SockIds :
    socks[sid].rs = "OPEN"
      => \A m \in MalformedFrames :
           LET r == TurnMessage(sid, m) IN
           /\ r.emitted = << [ev |-> "error", key |-> socks[sid].key, arg |-> "parse"] >>
           /\ r.connState = connState /\ r.ws = ws /\ r.topics = topics
           /\ r.socks = socks
           /\ r.sent = <<>> /\ r.settled = <<>>
           /\ r.sched = <<>> /\ r.timers = timers
           /\ r.err = "none"

\* C22 witness: a malformed frame on the stored open socket of a connected key
\* with auto-restore on and topics tracked, answered by one 'error' event.
C22_Witness ==
  \E sid \in SockIds :
    /\ socks[sid].rs = "OPEN" /\ ws[socks[sid].key] = sid
    /\ connState[socks[sid].key] = "CONNECTED"
    /\ restore /\ topics[socks[sid].key] # {}
    /\ Len(TurnMessage(sid, Frame(FALSE, "none", "none", FALSE)).emitted) = 1
    /\ TurnMessage(sid, Frame(FALSE, "none", "none", FALSE)).emitted[1].ev = "error"

\* The 'close' events of a turn.
Closes(r) == SelectSeq(r.emitted, LAMBDA e : e.ev = "close")

C24_ErrorKeepsState ==
  \A sid \in SockIds :
    /\ socks[sid].rs = "OPEN"
         => LET r == TurnError(sid) IN
            /\ r.connState = connState
            /\ r.emitted = << [ev |-> "error", key |-> socks[sid].key, arg |-> "socket"] >>
    /\ socks[sid].rs = "CONNECTING"
         => LET r == OnErrorHandler(Cur, sid) IN
            /\ r.connState = connState
            /\ r.emitted = << [ev |-> "error", key |-> socks[sid].key, arg |-> "socket"] >>

\* C24 witness: the error of the stored open socket of a connected key, which
\* leaves the key CONNECTED.
C24_Witness ==
  \E sid \in SockIds :
    /\ socks[sid].rs = "OPEN" /\ ws[socks[sid].key] = sid
    /\ connState[socks[sid].key] = "CONNECTED"
    /\ TurnError(sid).connState[socks[sid].key] = "CONNECTED"
    /\ Len(TurnError(sid).emitted) = 1

\* C25: a connection that stops answering pings is closed by the heartbeat
\* monitor: once a ping has gone out on the open socket of a CONNECTED key,
\* either a pong arrives or the socket is eventually no longer open.
C25_SilentConnectionClosed ==
  \A sid \in SockIds :
    (socks[sid].rs = "OPEN" /\ socks[sid].pinged /\ IsWsOpen(Cur, socks[sid].key))
      ~> (socks[sid].rs # "OPEN" \/ ~socks[sid].pinged)

\* C26: a tick of a heartbeat of key k sends one ping, on the stored socket,
\* when the key's connection is open, and keeps the timer; when it is not, the
\* tick sends nothing and clears the timer, which therefore never pings again.
\* Either way the tick throws nothing and leaves registry and sockets alone.
C26_PingOnlyWhileOpen ==
  \A k \in Keys :
    pingTimers[k] > 0
      => LET r == PingTick(Cur, k) IN
         /\ IF IsWsOpen(Cur, k)
            THEN /\ r.sent = << [sock |-> ws[k], key |-> k, op |-> "ping", args |-> {},
                                req_id |-> NoId] >>
                 /\ socks[ws[k]].rs = "OPEN"
                 /\ r.pingTimers = pingTimers
            ELSE /\ r.sent = <<>>
                 /\ r.pingTimers = [pingTimers EXCEPT ![k] = @ - 1]
         /\ r.err = "none" /\ r.emitted = <<>>
         /\ r.connState = connState /\ r.ws = ws /\ r.socks = socks

\* C26 witness: a heartbeat still running on a key whose connection is no
\* longer open; its tick sends nothing and clears it.
C26_Witness ==
  \E k \in Keys :
    /\ pingTimers[k] > 0
    /\ ~IsWsOpen(Cur, k)
    /\ PingTick(Cur, k).sent = <<>>
    /\ PingTick(Cur, k).pingTimers[k] = pingTimers[k] - 1

\* C27: CLOSING is not a terminal state: whatever state the key was in when
\* close(key) set it to CLOSING, and unless the application connects the key
\* again first, the key's state eventually is INITIAL again.
C27_ClosingReturnsToInitial ==
  \A k \in Keys :
    (connState[k] = "CLOSING" /\ closedByUser[k])
      ~> (connState[k] = "INITIAL" \/ ~closedByUser[k])

\* The frame with which the server refuses the authentication.
AuthRefused == Frame(TRUE, "auth", "none", FALSE)

\* What an authentication failure may do and no more: the promise of every
\* handshake that failed is rejected if still pending, no frame is sent, no
\* socket created and no further attempt scheduled.
FailsWithoutRetry(r, failed) ==
  /\ \A sid \in failed :
       socks[sid].waiter # "none"
         => \E i \in 1..Len(r.settled) :
              r.settled[i].sock = sid /\ r.settled[i].how = "rejected"
  /\ r.sent = <<>>
  /\ r.created = created
  /\ r.sched = <<>> /\ r.timers = timers

\* C28: an authentication failure, by refusal or by timeout, rejects the
\* connect in flight on the socket and starts no other attempt: no auth frame
\* is sent, no socket is opened and none is scheduled to be.
C28_AuthFailureNoRetry ==
  /\ \A sid \in SockIds :
       socks[sid].auth = "pending"
         => FailsWithoutRetry(AuthTimeoutHandler(Cur, sid), {sid})
  /\ \A sid \in SockIds :
       (socks[sid].rs = "OPEN" /\ socks[sid].authReq)
         => FailsWithoutRetry(TurnAuthReply(sid, AuthRefused),
                              {i \in SockIds : socks[i].listening /\ socks[i].auth = "pending"})

\* The authentication handshakes of the private connection awaiting an answer.
Outstanding == {sid \in SockIds : socks[sid].key = "private" /\ socks[sid].auth = "pending"}

\* C29: at most one authentication handshake is outstanding for the private
\* connection at any time.
C29_OneHandshakeOutstanding == Cardinality(Outstanding) <= 1

\* The acknowledgements of subscribe and unsubscribe requests.
RequestAcks == { Frame(TRUE, op, "none", b) : op \in {"subscribe", "unsubscribe"}, b \in BOOLEAN }

\* C30: a pending handshake outlives the acknowledgements of other requests: a
\* subscribe or unsubscribe acknowledgement received on any open socket, of
\* any category, leaves the handshake pending and waiting, and the auth
\* acknowledgement with success=true that arrives next still completes it.
C30_OtherAcksKeepHandshake ==
  \A sid \in SockIds :
    (socks[sid].auth = "pending" /\ socks[sid].listening)
      => \A s2 \in SockIds : \A m \in RequestAcks :
           socks[s2].rs = "OPEN"
             => LET r1 == TurnMessage(s2, m) IN
                /\ r1.socks[sid].auth = "pending"
                /\ r1.socks[sid].listening
                /\ \A a \in SockIds :
                     (socks[a].rs = "OPEN" /\ socks[a].authReq)
                       => OnMessageHandler(r1, a, Frame(TRUE, "auth", "none", TRUE))
                            .socks[sid].auth = "ok"

\* C31: the recorded state of a key is CONNECTED exactly when the socket
\* stored for the key is open. Stated in the direction the claim singles out:
\* while the stored socket is open the key is CONNECTED, which a close event
\* of an earlier, replaced socket of the key must not undo.
C31_StoredOpenIsConnected ==
  \A k \in Keys : StoredReadyState(Cur, k) = "OPEN" => connState[k] = "CONNECTED"

\* The reconnect attempts of key k under way: timers pending and sockets the
\* reconnect loop created that are still connecting.
AttemptsUnderWay(sk, tm, k) ==
  tm[k] + Cardinality({i \in SockIds : sk[i].key = k /\ sk[i].by = "reconn"
                                          /\ sk[i].rs = "CONNECTING"})

\* C32: at most one reconnect attempt exists per key at any time, and the
\* failure of a reconnect attempt (socket error, then close with code 1006)
\* schedules exactly one further attempt.
C32_OneReconnectAttempt ==
  \A k \in Keys :
    /\ AttemptsUnderWay(socks, timers, k) <= 1
    /\ \A sid \in SockIds : \A drained \in BOOLEAN :
         (socks[sid].key = k /\ socks[sid].rs = "CONNECTING" /\ socks[sid].waiter = "reconn")
           => Len(TurnConnectFail(sid, drained).sched) = 1

\* C33: at most one heartbeat timer runs per key at any time. Stated for the
\* case the claim names, a reconnect that completes before the previous
\* timer's next tick: when a socket of the reconnect loop opens, being the only
\* socket of its key, no more than one heartbeat runs for the key afterwards.
C33_OneHeartbeatPerKey ==
  \A sid \in SockIds :
    ( /\ socks[sid].rs = "CONNECTING" /\ socks[sid].by = "reconn"
      /\ \A i \in SockIds \ {sid} : socks[i].key # socks[sid].key )
      => TurnOpen(sid).pingTimers[socks[sid].key] <= 1

\* C34: unsubscribe on a connected key sends exactly one unsubscribe frame, on
\* the stored socket, whose args are the whole topic list, and afterwards none
\* of the listed topics is tracked for the key; subscribing the same topics a
\* second time changes nothing in the topic set, and subscribing topics that
\* were not tracked and unsubscribing them again restores the set.
C34_UnsubscribeMirrorsSubscribe ==
  \A k \in Keys : \A ts \in SUBSET AnyTopics \ {{}} :
    IsWsOpen(Cur, k)
      => LET u  == Unsubscribe(Cur, k, ts)
             s1 == Subscribe(Cur, k, ts)
             s2 == Subscribe(s1, k, ts)
             su == Unsubscribe(s1, k, ts)
         IN  /\ u.err = "none"
             /\ u.sent = << [sock |-> ws[k], key |-> k, op |-> "unsubscribe", args |-> ts,
                            req_id |-> RequestId(u)] >>
             /\ u.topics[k] \cap ts = {}
             /\ u.topics = [topics EXCEPT ![k] = @ \ ts]
             /\ s2.err = "none" /\ s2.topics = s1.topics
             /\ Len(su.sent) = 2 /\ su.sent[2].op = "unsubscribe"
             /\ ts \cap topics[k] = {} => su.topics = topics

\* C34 witness: a connected key that tracks a topic, where unsubscribing a
\* list of two topics sends one frame with both and leaves nothing tracked,
\* and subscribing and unsubscribing an untracked topic restores the set.
C34_Witness ==
  \E k \in used :
    /\ IsWsOpen(Cur, k)
    /\ topics[k] = TopicsOf(k)
    /\ Len(Unsubscribe(Cur, k, TopicsOf(k) \cup {"trade"}).sent) = 1
    /\ Unsubscribe(Cur, k, TopicsOf(k) \cup {"trade"}).sent[1].args = TopicsOf(k) \cup {"trade"}
    /\ Unsubscribe(Cur, k, TopicsOf(k) \cup {"trade"}).topics[k] = {}
    /\ Subscribe(Cur, k, {"trade"}).topics[k] = TopicsOf(k) \cup {"trade"}
    /\ Unsubscribe(Subscribe(Cur, k, {"trade"}), k, {"trade"}).topics[k] = TopicsOf(k)

\* C35: when a reconnect succeeds for a key whose topic set is empty, no
\* subscribe frame is sent: the turn in which the reconnect attempt's socket
\* opens, or in which the answer to its auth frame arrives, resolves the
\* attempt and sends no frame with op "subscribe".
SubscribeFrames(r) == {i \in 1..Len(r.sent) : r.sent[i].op = "subscribe"}

C35_NoReplayOfEmptySet ==
  \A sid \in SockIds :
    (socks[sid].waiter = "reconn" /\ topics[socks[sid].key] = {})
      => /\ socks[sid].rs = "CONNECTING" => SubscribeFrames(TurnOpen(sid)) = {}
         /\ (socks[sid].rs = "OPEN" /\ socks[sid].authReq)
              => \A m \in AuthFrames : SubscribeFrames(TurnAuthReply(sid, m)) = {}

\* C35 witness: a reconnect attempt's socket of a key without topics is about
\* to open, and its opening resolves the attempt with no frame sent.
C35_Witness ==
  \E sid \in SockIds :
    /\ socks[sid].waiter = "reconn" /\ socks[sid].rs = "CONNECTING"
    /\ topics[socks[sid].key] = {}
    /\ \E i \in 1..Len(TurnOpen(sid).settled) :
         TurnOpen(sid).settled[i] = [sock |-> sid, by |-> "reconn", how |-> "resolved"]
    /\ TurnOpen(sid).sent = <<>>
    /\ TurnOpen(sid).connState[socks[sid].key] = "CONNECTED"

\* C36: emitting 'error' never raises an exception out of the socket callback,
\* whether or not the application listens for 'error': the turn of a socket
\* error, of a failed connection attempt and of a malformed frame ends with no
\* exception.
C36_ErrorEmitNeverThrows ==
  \A sid \in SockIds :
    /\ socks[sid].rs = "OPEN"
         => /\ TurnError(sid).err = "none"
            /\ \A m \in MalformedFrames : TurnMessage(sid, m).err = "none"
    /\ socks[sid].rs \in {"CONNECTING", "ABORTING"}
         => \A drained \in BOOLEAN : TurnConnectFail(sid, drained).err = "none"

\* C37: closeAll() requests close on every key whose record holds a socket
\* (the key's state becomes CLOSING and close() is called on the socket), does
\* nothing for a key without a record, and deletes no record and no tracked
\* topic; it sends no frame, schedules nothing and throws nothing.
C37_CloseAllClosesEveryRecord ==
  LET r == TurnCloseAll IN
  /\ \A k \in Keys :
       IF ws[k] = 0
       THEN r.connState[k] = connState[k]
       ELSE /\ r.connState[k] = "CLOSING"
            /\ ws[k] \in SockIds => r.socks[ws[k]] = TransportClose(socks[ws[k]])
  /\ \A i \in SockIds : (\A k \in Keys : ws[k] # i) => r.socks[i] = socks[i]
  /\ r.ws = ws
  /\ r.topics = topics
  /\ r.sent = <<>> /\ r.sched = <<>> /\ r.err = "none"

\* C37 witness: both keys hold a socket, one of them tracks topics, neither is
\* closing, and closeAll() puts both into CLOSING with the topics kept.
C37_Witness ==
  /\ \A k \in Keys : ws[k] \in SockIds /\ connState[k] # "CLOSING"
  /\ \E k \in Keys : topics[k] # {}
  /\ \A k \in Keys : TurnCloseAll.connState[k] = "CLOSING"
  /\ TurnCloseAll.topics = topics

\* C38: every subscribe and unsubscribe frame one client sends carries a
\* req_id that differs from the id of every frame it sent earlier: whenever
\* the turn runs, the id of a frame that subscribe, unsubscribe or the replay
\* of a reconnect sends is none of the ids issued so far, the two frames of
\* two calls in one turn differ, and as many ids were issued as frames sent.
C38_RequestIdsDiffer ==
  /\ Cardinality(issued) = requestIdCounter
  /\ \A now \in Times :
       /\ \A k \in Keys : \A ts \in SUBSET AnyTopics \ {{}} :
            IsWsOpen(Cur, k)
              => LET s  == Subscribe(At(now), k, ts)
                     u  == Unsubscribe(At(now), k, ts)
                     su == Unsubscribe(s, k, ts)
                 IN  /\ s.sent[1].req_id \notin issued \cup {NoId}
                     /\ u.sent[1].req_id \notin issued \cup {NoId}
                     /\ su.sent[2].req_id # su.sent[1].req_id
       /\ \A sid \in SockIds :
            socks[sid].rs = "CONNECTING"
              => LET r == OnOpenHandler([At(now) EXCEPT !.socks[sid].rs = "OPEN"], sid)
                 IN  \A i \in RequestFrames(r) : r.sent[i].req_id \notin issued \cup {NoId}

\* C38 witness: two ids were issued at the same time of the clock, the key is
\* connected, and the next subscribe at that time carries a third id.
C38_Witness ==
  \E k \in used : \E now \in Times :
    /\ IsWsOpen(Cur, k)
    /\ requestIdCounter = 2
    /\ \A id \in issued : id.t = now
    /\ Subscribe(At(now), k, TopicsOf(k)).sent[1].req_id = [n |-> 3, t |-> now]

====
